---- MODULE Spec2Model ----
(***************************************************************************)
(* Model of the bid system of src/routers/{bidding,admin,users}.py over    *)
(* the PostgreSQL tables of src/database.py and the Redis keys they use.   *)
(*                                                                         *)
(* The Authoritative Store is the committed content of the tables          *)
(* products, members and winners; a settlement runs in a transaction whose *)
(* writes (txn) are invisible to other connections until commit.  Redis    *)
(* holds the metadata cache (system:current_product), the per-user weight  *)
(* cache (user:<id>), the ranking sorted set ({bid:1}:ranking) and the     *)
(* details hash ({bid:1}:details).  Request handlers are tasks that may be *)
(* interleaved at every await on the database or on Redis.                 *)
(*                                                                         *)
(* Every Redis key of the model is written with a TTL of 3600 s; the clock *)
(* of the model advances by at most MaxTicks minutes, so no key expires    *)
(* inside the horizon of the model.                                        *)
(***************************************************************************)
EXTENDS Integers, Sequences, FiniteSets, TLC

(* ------------------------------ bounds --------------------------------- *)
NumUsers == 2
NumTasks == 2
MaxPrice == 2
MaxQuantity == 1
MaxMinutes == 1
MaxCoeff == 1
MaxTicks == 1
MaxAdmin == 2
MaxRequests == 2
MaxSettleRequests == 3

Users == 1 .. NumUsers          \* user ids, ordered as their strings are
Tasks == 1 .. NumTasks          \* concurrently running request handlers
Prices == 1 .. MaxPrice         \* BidModel.bid_price
Quantities == 1 .. MaxQuantity  \* ProductConfig.total_quantity
Minutes == 1 .. MaxMinutes      \* ProductConfig.duration_minutes
Coeffs == 0 .. MaxCoeff         \* ScoreConfig.A, B, C

(* --------------------------- program constants ------------------------- *)
ProductId == 1
MsPerMinute == 60 * 1000
FallbackWeight == 1
CacheAlpha == 3
CacheBeta == 5
CacheGamma == 3
ColumnAlpha == 1
ColumnBeta == 0
ColumnGamma == 0

(* ------------------------------ options -------------------------------- *)
None == << >>
Some(x) == << x >>
IsSome(o) == Len(o) = 1
Get(o) == o[1]

Max(a, b) == IF a >= b THEN a ELSE b
Min(a, b) == IF a <= b THEN a ELSE b

\* Python's `x or default` on a number: 0 is falsy.
OrDefault(x, default) == IF x = 0 THEN default ELSE x

(* ------------------------------- scores -------------------------------- *)
\* A score is the exact rational w + r/d, with 0 <= r < d and r/d reduced.
RECURSIVE GCD(_, _)
GCD(a, b) == IF b = 0 THEN a ELSE GCD(b, a % b)

Rational(whole, num, den) ==
    LET q == num \div den
        r == num % den
        g == GCD(den, r)
    IN  [w |-> whole + q, r |-> r \div g, d |-> den \div g]

calc_score(P, T, W, alpha, beta, gamma) ==
    Rational(alpha * P + gamma * W, beta, T + 1)

ScoreLess(a, b) == \/ a.w < b.w
                   \/ a.w = b.w /\ a.r * b.d < b.r * a.d

(* ------------------------- Redis sorted set ---------------------------- *)
\* A sorted set orders its members by score, and members of equal score by
\* their names; ZREVRANGE walks that order backwards.
RankedUsers(zset) == {u \in Users : IsSome(zset[u])}

RevBefore(zset, u, v) ==
    \/ ScoreLess(Get(zset[v]), Get(zset[u]))
    \/ Get(zset[u]) = Get(zset[v]) /\ u > v

RevRank(zset, u) == Cardinality({v \in RankedUsers(zset) : RevBefore(zset, v, u)})

RevOrder(zset) ==
    [i \in 1 .. Cardinality(RankedUsers(zset)) |->
        CHOOSE u \in RankedUsers(zset) : RevRank(zset, u) = i - 1]

\* redis zrevrange(key, start, stop, withscores=True): indexes are inclusive,
\* a negative index counts from the end, stop is cut to the last index.
ZRevRange(zset, start, stop) ==
    LET len == Cardinality(RankedUsers(zset))
        s == IF start < 0 THEN Max(len + start, 0) ELSE start
        e == Min(IF stop < 0 THEN len + stop ELSE stop, len - 1)
        ord == RevOrder(zset)
    IN  IF s > e \/ s >= len
        THEN << >>
        ELSE [i \in 1 .. (e - s + 1) |->
                [user_id |-> ord[s + i], score |-> Get(zset[ord[s + i]])]]

(* ------------------------------- state --------------------------------- *)
VARIABLES
    now,        \* int(time.time() * 1000), as an offset in milliseconds
    ticks,      \* how often the clock has advanced
    admins,     \* how many admin requests have been served
    requests,   \* how many requests the tasks have taken up
    product,    \* products table: the row of product_id 1, committed
    members,    \* members table, committed: user_id -> row
    winners,    \* winners table, committed: rows in insertion order
    lock,       \* holder of the FOR UPDATE lock on the product row
    txn,        \* uncommitted writes of the settlement transaction
    metaCache,  \* Redis system:current_product
    userCache,  \* Redis user:<id> field weight
    ranking,    \* Redis {bid:1}:ranking
    details,    \* Redis {bid:1}:details
    pc,         \* task -> the await it is suspended at
    loc,        \* task -> local variables of its handler
    aborted     \* history: a settlement transaction has rolled back

vars == << now, ticks, admins, requests, product, members, winners, lock, txn,
           metaCache, userCache, ranking, details, pc, loc, aborted >>

NoTask == 0

NoRow == [exists |-> FALSE, total_quantity |-> 0, start_time |-> 0,
          period |-> 0, settled |-> FALSE, alpha |-> 0, beta |-> 0, gamma |-> 0]

NoTxn == [members |-> [u \in Users |-> None], winners |-> << >>,
          settled |-> FALSE]

NoLocals == [op |-> "none", phase |-> 0, user_id |-> 0, bid_price |-> 0,
             product |-> None, row |-> None, W |-> 0, top |-> << >>, i |-> 0,
             winner |-> << >>]

Init ==
    /\ now = 1
    /\ ticks = 0
    /\ admins = 0
    /\ requests = 0
    /\ product = NoRow
    /\ members = [u \in Users |-> None]
    /\ winners = << >>
    /\ lock = NoTask
    /\ txn = NoTxn
    /\ metaCache = None
    /\ userCache = [u \in Users |-> None]
    /\ ranking = [u \in Users |-> None]
    /\ details = [u \in Users |-> None]
    /\ pc = [t \in Tasks |-> "idle"]
    /\ loc = [t \in Tasks |-> NoLocals]
    /\ aborted = FALSE

(* ----------------------- rows, dicts and payloads ---------------------- *)
\* dict(row) of a products row, as get_current_product returns it on a miss.
RowDict(row) ==
    [product_id |-> ProductId, total_quantity |-> row.total_quantity,
     start_time |-> row.start_time, period |-> row.period,
     settled |-> row.settled, alpha |-> row.alpha, beta |-> row.beta,
     gamma |-> row.gamma]

\* cache_payload of get_current_product: falsy columns get a default.
CachePayload(row, time) ==
    [product_id |-> ProductId,
     total_quantity |-> OrDefault(row.total_quantity, 0),
     start_time |-> OrDefault(row.start_time, time),
     period |-> OrDefault(row.period, 0),
     settled |-> row.settled,
     alpha |-> OrDefault(row.alpha, CacheAlpha),
     beta |-> OrDefault(row.beta, CacheBeta),
     gamma |-> OrDefault(row.gamma, CacheGamma)]

\* The winners rows of one product and of one bidder.
AwardsOf(rows, pid) == SelectSeq(rows, LAMBDA w : w.product_id = pid)
AwardCount(rows, pid, u) ==
    Len(SelectSeq(rows, LAMBDA w : w.product_id = pid /\ w.user_id = u))

(* ------------------------------ the clock ------------------------------ *)
Tick(d) ==
    /\ ticks < MaxTicks
    /\ now' = now + d
    /\ ticks' = ticks + 1
    /\ UNCHANGED << admins, requests, product, members, winners, lock, txn,
                    metaCache, userCache, ranking, details, pc, loc, aborted >>

(* --------------------------- admin handlers ---------------------------- *)
\* The row of product_id 1 after set_product: updated when it exists,
\* inserted with the column defaults of alpha, beta, gamma otherwise.
SetProductRow(row, cfg, time) ==
    IF row.exists
    THEN [row EXCEPT !.total_quantity = cfg.total_quantity,
                     !.start_time = time,
                     !.period = cfg.duration_minutes * MsPerMinute,
                     !.settled = FALSE]
    ELSE [exists |-> TRUE, total_quantity |-> cfg.total_quantity,
          start_time |-> time, period |-> cfg.duration_minutes * MsPerMinute,
          settled |-> FALSE, alpha |-> ColumnAlpha, beta |-> ColumnBeta,
          gamma |-> ColumnGamma]

\* set_product: the transaction upserts the row of product_id 1.  Its UPDATE
\* waits for the row lock of a running settlement.  The bids table it clears
\* is read by no handler.
set_product(cfg) ==
    /\ lock = NoTask
    /\ admins < MaxAdmin
    /\ admins' = admins + 1
    /\ product' = SetProductRow(product, cfg, now)
    /\ UNCHANGED << now, ticks, requests, members, winners, lock, txn,
                    metaCache, userCache, ranking, details, pc, loc, aborted >>

\* The row of product_id 1 after set_score.
SetScoreRow(row, cfg) ==
    IF row.exists
    THEN [row EXCEPT !.alpha = cfg.A, !.beta = cfg.B, !.gamma = cfg.C]
    ELSE row

\* set_score: updates alpha, beta, gamma of product_id 1 when the row exists.
set_score(cfg) ==
    /\ lock = NoTask
    /\ admins < MaxAdmin
    /\ admins' = admins + 1
    /\ product' = SetScoreRow(product, cfg)
    /\ UNCHANGED << now, ticks, requests, members, winners, lock, txn,
                    metaCache, userCache, ranking, details, pc, loc, aborted >>

(* ---------------------------- user handlers ---------------------------- *)
\* register: inserts the members row with weight 0 and wins 0 unless it exists.
RegisterRow(row) == IF IsSome(row) THEN row ELSE Some([wins |-> 0, weight |-> 0])

register(u) ==
    /\ members' = [members EXCEPT ![u] = RegisterRow(members[u])]
    /\ UNCHANGED << now, ticks, admins, requests, product, winners, lock, txn,
                    metaCache, userCache, ranking, details, pc, loc, aborted >>

(* --------------------------- request handlers -------------------------- *)
Goto(t, label, locals) ==
    /\ pc' = [pc EXCEPT ![t] = label]
    /\ loc' = [loc EXCEPT ![t] = locals]

\* The handler returns; its locals are gone.
Finish(t) == Goto(t, "idle", NoLocals)

StartBid(t, u, p) ==
    /\ pc[t] = "idle"
    /\ requests' = requests + 1
    /\ Goto(t, "gcp_read", [NoLocals EXCEPT !.op = "bid", !.user_id = u,
                                            !.bid_price = p])
    /\ UNCHANGED << now, ticks, admins, product, members, winners, lock, txn,
                    metaCache, userCache, ranking, details, aborted >>

StartGetProduct(t) ==
    /\ pc[t] = "idle"
    /\ requests' = requests + 1
    /\ Goto(t, "gcp_read", [NoLocals EXCEPT !.op = "get_product", !.phase = 1])
    /\ UNCHANGED << now, ticks, admins, product, members, winners, lock, txn,
                    metaCache, userCache, ranking, details, aborted >>

(* ------------------------- get_current_product ------------------------- *)
\* The window of an auction has elapsed (get_product_api, end_time).
WindowElapsed(p, time) ==
    time >= OrDefault(p.start_time, 0) + OrDefault(p.period, 0)

\* get_product_api keeps of the product it read what it reads again: the
\* id, the quantity it settles with and the settled flag of its response.
Kept(p) ==
    [p EXCEPT !.start_time = 0, !.period = 0, !.alpha = 0, !.beta = 0,
              !.gamma = 0]

\* What the caller does with the product get_current_product returned, up to
\* its next await.  phase 1 is get_product_api's first read, phase 2 its
\* read after the settlement, phase 3 the read of the bid_list it ends with.
\* get_bid_price reads the product for its id only, which is ProductId
\* whether a product is there or not.
AfterProduct(t, prod) ==
    LET l == loc[t] IN
    CASE l.op = "bid" ->
           IF ~IsSome(prod) \/ Get(prod).settled
           THEN Finish(t)
           ELSE Goto(t, "w_read", [l EXCEPT !.product = prod, !.row = None])
      [] l.op = "get_product" /\ l.phase = 1 ->
           IF ~IsSome(prod)
           THEN Finish(t)
           ELSE IF ~Get(prod).settled /\ WindowElapsed(Get(prod), now)
           THEN Goto(t, "st_begin",
                     [l EXCEPT !.product = Some(Kept(Get(prod))), !.row = None])
           ELSE Goto(t, "gp_winners",
                     [l EXCEPT !.product = Some(Kept(Get(prod))), !.row = None])
      [] l.op = "get_product" /\ l.phase = 2 ->
           IF ~IsSome(prod)
           THEN Finish(t)
           ELSE Goto(t, "gp_winners",
                     [l EXCEPT !.product = Some(Kept(Get(prod))), !.row = None])
      [] l.op = "get_bid_price" -> Goto(t, "bp_score", l)
      [] OTHER -> Finish(t)

\* redis_client.get(cache_key), and on a miss database.fetch_one(latest
\* product).  The two reads are one step: no step of another task writes both
\* the cache and a committed row, so each moves before or after the pair.
GcpRead(t) ==
    /\ pc[t] = "gcp_read"
    /\ IF IsSome(metaCache) THEN AfterProduct(t, metaCache)
       ELSE IF product.exists
       THEN Goto(t, "gcp_set", [loc[t] EXCEPT !.row = Some(product)])
       ELSE AfterProduct(t, None)
    /\ UNCHANGED << now, ticks, admins, requests, product, members, winners,
                    lock, txn, metaCache, userCache, ranking, details, aborted >>

\* redis_client.set(cache_key, payload, ex=3600); the caller gets dict(row).
GcpSet(t) ==
    /\ pc[t] = "gcp_set"
    /\ metaCache' = Some(CachePayload(Get(loc[t].row), now))
    /\ AfterProduct(t, Some(RowDict(Get(loc[t].row))))
    /\ UNCHANGED << now, ticks, admins, requests, product, members, winners,
                    lock, txn, userCache, ranking, details, aborted >>

(* --------------------------- get_user_weight --------------------------- *)
\* redis_client.hget(user_key, "weight"), and on a miss the members row; an
\* unknown user gets the fallback weight.  One step, as in GcpRead.
WRead(t) ==
    /\ pc[t] = "w_read"
    /\ LET u == loc[t].user_id
       IN  IF IsSome(userCache[u])
           THEN Goto(t, "bid_write", [loc[t] EXCEPT !.W = Get(userCache[u])])
           ELSE IF IsSome(members[u])
           THEN Goto(t, "w_set", [loc[t] EXCEPT !.W = Get(members[u]).weight])
           ELSE Goto(t, "bid_write", [loc[t] EXCEPT !.W = FallbackWeight])
    /\ UNCHANGED << now, ticks, admins, requests, product, members, winners,
                    lock, txn, metaCache, userCache, ranking, details, aborted >>

\* redis_client.hset(user_key, "weight", w) and expire(user_key, 3600).
WSet(t) ==
    /\ pc[t] = "w_set"
    /\ userCache' = [userCache EXCEPT ![loc[t].user_id] = Some(loc[t].W)]
    /\ Goto(t, "bid_write", loc[t])
    /\ UNCHANGED << now, ticks, admins, requests, product, members, winners,
                    lock, txn, metaCache, ranking, details, aborted >>

(* --------------------------------- bid --------------------------------- *)
\* BidScore without the floor of one millisecond on the elapsed time.
BidScoreNoFloor(p, price, W, time) ==
    calc_score(price, time - OrDefault(p.start_time, 0), W,
               p.alpha, p.beta, p.gamma)

\* The score bid computes from the product it read and the weight it got.
BidScore(p, price, W, time) ==
    calc_score(price, Max(time - OrDefault(p.start_time, 0), 1), W,
               p.alpha, p.beta, p.gamma)

\* pipe.zadd(ranking_key, {user_id: bid_score})
ZAdd(zset, u, score) == [zset EXCEPT ![u] = Some(score)]

\* HSetDetail as HSETNX: the detail of a bidder's first bid stays.
HSetDetailFirst(hash, u, price, time, score) ==
    IF IsSome(hash[u]) THEN hash
    ELSE [hash EXCEPT ![u] = Some([price |-> price, time |-> time, score |-> score])]

\* pipe.hset(details_hash_key, user_id, detail_data)
HSetDetail(hash, u, price, time, score) ==
    [hash EXCEPT ![u] = Some([price |-> price, time |-> time, score |-> score])]

\* The pipeline (MULTI/EXEC) writes the ranking and the details together;
\* the handler then answers status ok.
BidWrite(t) ==
    /\ pc[t] = "bid_write"
    /\ LET l == loc[t]
           score == BidScore(Get(l.product), l.bid_price, l.W, now)
       IN  /\ ranking' = ZAdd(ranking, l.user_id, score)
           /\ details' = HSetDetail(details, l.user_id, l.bid_price, now, score)
    /\ Finish(t)
    /\ UNCHANGED << now, ticks, admins, requests, product, members, winners,
                    lock, txn, metaCache, userCache, aborted >>

(* ------------------------- settle_product_logic ------------------------ *)
\* NothingToSettle without the re-check of the settled flag under the lock.
NothingToSettleUnchecked(row) == ~row.exists

\* The check under the row lock: nothing to settle.
NothingToSettle(row) == ~row.exists \/ row.settled

\* The members row a statement of the settlement transaction sees.
TxnMember(u) == IF IsSome(txn.members[u]) THEN txn.members[u] ELSE members[u]

\* SELECT ... FOR UPDATE waits for the row lock; under it the handler checks
\* the settled flag and takes the top total_quantity of the ranking.
StBegin(t) ==
    /\ pc[t] = "st_begin"
    /\ lock = NoTask
    /\ IF NothingToSettle(product)
       THEN /\ Goto(t, "gcp_read", [loc[t] EXCEPT !.phase = 2])
            /\ UNCHANGED << lock, txn >>
       ELSE LET top == ZRevRange(ranking, 0, Get(loc[t].product).total_quantity - 1)
            IN  /\ lock' = t
                /\ txn' = NoTxn
                /\ Goto(t, IF top = << >> THEN "st_flag" ELSE "st_loop",
                        [loc[t] EXCEPT !.top = top, !.i = 1])
    /\ UNCHANGED << now, ticks, admins, requests, product, members, winners, metaCache,
                    userCache, ranking, details, aborted >>

\* The wins and weight of a winner's members row after this settlement.
WinnerRow(row) == [wins |-> row.wins + 1, weight |-> row.wins + 1]

\* The winners row of one winner (settled_time is read by no handler).
AwardRow(pid, entry, detail) ==
    [product_id |-> pid, user_id |-> entry.user_id,
     win_price |-> IF IsSome(detail) THEN Get(detail).price ELSE 0,
     win_score |-> entry.score]

\* One turn of the loop over the winners: the members row is updated and the
\* winners row inserted inside the transaction, the weight cache at once.
StLoop(t) ==
    /\ pc[t] = "st_loop"
    /\ LET l == loc[t]
           entry == l.top[l.i]
           u == entry.user_id
           member == TxnMember(u)
           award == AwardRow(Get(l.product).product_id, entry, details[u])
       IN  /\ txn' = [txn EXCEPT
                        !.members[u] = IF IsSome(member)
                                       THEN Some(WinnerRow(Get(member)))
                                       ELSE @,
                        !.winners = Append(@, award)]
           /\ userCache' = IF IsSome(member)
                           THEN [userCache EXCEPT ![u] = Some(Get(member).wins + 1)]
                           ELSE userCache
           /\ Goto(t, IF l.i = Len(l.top) THEN "st_flag" ELSE "st_loop",
                   [l EXCEPT !.i = l.i + 1])
    /\ UNCHANGED << now, ticks, admins, requests, product, members, winners, lock,
                    metaCache, ranking, details, aborted >>

\* Step F: the cached product, when there is one of this id, gets settled.
SettledPayload(cache, pid) ==
    IF IsSome(cache) /\ Get(cache).product_id = pid
    THEN Some([Get(cache) EXCEPT !.settled = TRUE])
    ELSE cache

\* Steps D to F: settled = True inside the transaction, then the cache.
StFlag(t) ==
    /\ pc[t] = "st_flag"
    /\ txn' = [txn EXCEPT !.settled = TRUE]
    /\ metaCache' = SettledPayload(metaCache, Get(loc[t].product).product_id)
    /\ Goto(t, "st_commit", loc[t])
    /\ UNCHANGED << now, ticks, admins, requests, product, members, winners, lock,
                    userCache, ranking, details, aborted >>

\* What a commit of the transaction leaves in the tables.
CommitProduct(row, pending) == [row EXCEPT !.settled = @ \/ pending.settled]
CommitMembers(rows, pending) ==
    [u \in Users |-> IF IsSome(pending.members[u]) THEN pending.members[u] ELSE rows[u]]
CommitWinners(rows, pending) == rows \o pending.winners

\* Leaving `async with database.transaction()` commits and releases the lock;
\* get_product_api then reads the product again.
StCommit(t) ==
    /\ pc[t] = "st_commit"
    /\ product' = CommitProduct(product, txn)
    /\ members' = CommitMembers(members, txn)
    /\ winners' = CommitWinners(winners, txn)
    /\ lock' = NoTask
    /\ txn' = NoTxn
    /\ Goto(t, "gcp_read", [loc[t] EXCEPT !.phase = 2, !.top = << >>, !.i = 0])
    /\ UNCHANGED << now, ticks, admins, requests, metaCache, userCache, ranking,
                    details, aborted >>

\* What a rollback of the transaction leaves in the winners table.
RollbackWinners(rows, pending) == rows
RollbackMembers(rows, pending) == rows

\* A statement of the transaction raises (store or Redis unreachable): the
\* transaction rolls back, the lock is released, the request fails.
StFail(t) ==
    /\ pc[t] \in {"st_loop", "st_flag", "st_commit"}
    /\ winners' = RollbackWinners(winners, txn)
    /\ members' = RollbackMembers(members, txn)
    /\ lock' = NoTask
    /\ txn' = NoTxn
    /\ aborted' = TRUE
    /\ Finish(t)
    /\ UNCHANGED << now, ticks, admins, requests, product, metaCache, userCache,
                    ranking, details >>

(* ------------------------ get_product and bid_list --------------------- *)
\* The winner list of the response: the user_id of every winners row.
WinnerList(rows, pid) ==
    LET a == AwardsOf(rows, pid) IN [i \in 1 .. Len(a) |-> a[i].user_id]

\* The winners rows are read when the product read last is settled; the
\* handler goes on to bid_list, which reads the product once more.
GpWinners(t) ==
    /\ pc[t] = "gp_winners"
    /\ LET p == Get(loc[t].product)
       IN  Goto(t, "gcp_read",
                [loc[t] EXCEPT !.phase = 3,
                               !.winner = IF p.settled
                                          THEN WinnerList(winners, p.product_id)
                                          ELSE << >>])
    /\ UNCHANGED << now, ticks, admins, requests, product, members, winners,
                    lock, txn, metaCache, userCache, ranking, details, aborted >>

\* bid_list: the top total_quantity of the ranking with their details.
BidList(zset, hash, n) ==
    LET top == ZRevRange(zset, 0, n - 1)
    IN  [i \in 1 .. Len(top) |->
           [user_id |-> top[i].user_id,
            bid_price |-> IF IsSome(hash[top[i].user_id])
                          THEN Get(hash[top[i].user_id]).price ELSE 0,
            score |-> top[i].score,
            timestamp |-> IF IsSome(hash[top[i].user_id])
                          THEN Get(hash[top[i].user_id]).time ELSE 0]]

(* --------------------------- the specification ------------------------- *)
ProductConfigs == [total_quantity : Quantities, duration_minutes : Minutes]
ScoreConfigs ==
    {cfg \in [A : Coeffs, B : Coeffs, C : Coeffs] : cfg.A + cfg.B + cfg.C <= MaxCoeff}

\* A step of a handler that is under way.
Step(t) ==
    \/ GcpRead(t)
    \/ GcpSet(t)
    \/ WRead(t)
    \/ WSet(t)
    \/ BidWrite(t)
    \/ StBegin(t)
    \/ StLoop(t)
    \/ StFlag(t)
    \/ StCommit(t)
    \/ StFail(t)
    \/ GpWinners(t)

\* Every handler, at most MaxRequests requests and MaxAdmin admin requests.
Next ==
    \/ \E t \in Tasks, u \in Users, p \in Prices :
          requests < MaxRequests /\ StartBid(t, u, p)
    \/ \E t \in Tasks : requests < MaxRequests /\ StartGetProduct(t)
    \/ \E t \in Tasks : Step(t)
    \/ \E cfg \in ProductConfigs : set_product(cfg)
    \/ \E cfg \in ScoreConfigs : set_score(cfg)
    \/ \E u \in Users : register(u)
    \/ Tick(MsPerMinute)

Spec == Init /\ [][Next]_vars

\* The auctions of product_id 1 without set_score: listing and relisting,
\* bids and queries, at most MaxSettleRequests requests.
AuctionNext ==
    \/ \E t \in Tasks, u \in Users, p \in Prices :
          requests < MaxSettleRequests /\ StartBid(t, u, p)
    \/ \E t \in Tasks : requests < MaxSettleRequests /\ StartGetProduct(t)
    \/ \E t \in Tasks : Step(t)
    \/ \E cfg \in ProductConfigs : set_product(cfg)
    \/ \E u \in Users : register(u)
    \/ Tick(MsPerMinute)

AuctionSpec == Init /\ [][AuctionNext]_vars

\* One auction: set_product lists the product and does not list it again.
SettleNext ==
    \/ \E t \in Tasks, u \in Users, p \in Prices :
          requests < MaxSettleRequests /\ StartBid(t, u, p)
    \/ \E t \in Tasks : requests < MaxSettleRequests /\ StartGetProduct(t)
    \/ \E t \in Tasks : Step(t)
    \/ \E cfg \in ProductConfigs : ~product.exists /\ set_product(cfg)
    \/ \E u \in Users : register(u)
    \/ Tick(MsPerMinute)

SettleSpec == Init /\ [][SettleNext]_vars

\* One auction under fair scheduling: the event loop resumes every handler
\* whose await can complete, and the store grants the row lock to a waiter
\* once it is free.  A statement of a settlement may still raise.
LiveNext ==
    \/ \E t \in Tasks, u \in Users, p \in Prices :
          requests < MaxRequests /\ StartBid(t, u, p)
    \/ \E t \in Tasks : requests < MaxRequests /\ StartGetProduct(t)
    \/ \E t \in Tasks : Step(t)
    \/ \E cfg \in ProductConfigs : ~product.exists /\ set_product(cfg)
    \/ \E u \in Users : register(u)
    \/ Tick(MsPerMinute)

LiveSpec ==
    /\ Init
    /\ [][LiveNext]_vars
    /\ \A t \in Tasks : WF_vars(Step(t))

\* The top-n query on its own: any ranking of scores bids produce, queried
\* with any n a total_quantity can be.
TopScores ==
    {calc_score(p, 1, w, ColumnAlpha, ColumnBeta, CacheGamma) :
        p \in Prices, w \in 0 .. 1}

TopSizes == -1 .. NumUsers + 1

TopInit ==
    /\ now = 1
    /\ ticks = 0
    /\ admins = 0
    /\ requests = 0
    /\ product = NoRow
    /\ members = [u \in Users |-> None]
    /\ winners = << >>
    /\ lock = NoTask
    /\ txn = NoTxn
    /\ metaCache = None
    /\ userCache = [u \in Users |-> None]
    /\ ranking \in [Users -> {None} \cup {Some(x) : x \in TopScores}]
    /\ details = [u \in Users |-> None]
    /\ pc = [t \in Tasks |-> "idle"]
    /\ loc = [t \in Tasks |-> NoLocals]
    /\ aborted = FALSE

\* redis_client.zrevrange(ranking_key, 0, n - 1, withscores=True)
TopQuery(t, n) ==
    /\ pc[t] = "idle"
    /\ Goto(t, "top", [NoLocals EXCEPT !.op = "top", !.i = n,
                                       !.top = ZRevRange(ranking, 0, n - 1)])
    /\ UNCHANGED << now, ticks, admins, requests, product, members, winners,
                    lock, txn, metaCache, userCache, ranking, details, aborted >>

TopNext == \E t \in Tasks, n \in TopSizes : TopQuery(t, n)

TopSpec == TopInit /\ [][TopNext]_vars

\* The top-n query on a ranking with its details: every ranked bidder has the
\* details entry bid wrote with the score, at a millisecond of the window.
BidTimes == 1 .. NumUsers

RankedBids ==
    {[price |-> p, time |-> tm,
      score |-> calc_score(p, 1, w, ColumnAlpha, ColumnBeta, CacheGamma)] :
        p \in Prices, w \in 0 .. 1, tm \in BidTimes}

TieInit ==
    /\ now = 1 + NumUsers
    /\ ticks = 0
    /\ admins = 0
    /\ requests = 0
    /\ product = NoRow
    /\ members = [u \in Users |-> None]
    /\ winners = << >>
    /\ lock = NoTask
    /\ txn = NoTxn
    /\ metaCache = None
    /\ userCache = [u \in Users |-> None]
    /\ details \in [Users -> {None} \cup {Some(b) : b \in RankedBids}]
    /\ ranking = [u \in Users |->
                    IF IsSome(details[u]) THEN Some(Get(details[u]).score) ELSE None]
    /\ pc = [t \in Tasks |-> "idle"]
    /\ loc = [t \in Tasks |-> NoLocals]
    /\ aborted = FALSE

TieSpec == TieInit /\ [][TopNext]_vars

\* One auction of any capacity an admin can list: total_quantity is an int
\* that set_product does not validate, 0 included.
Capacities == 0 .. MaxQuantity

CapacityConfigs == [total_quantity : Capacities, duration_minutes : Minutes]

CapacityNext ==
    \/ \E t \in Tasks, u \in Users, p \in Prices :
          requests < MaxSettleRequests /\ StartBid(t, u, p)
    \/ \E t \in Tasks : requests < MaxSettleRequests /\ StartGetProduct(t)
    \/ \E t \in Tasks : Step(t)
    \/ \E cfg \in CapacityConfigs : ~product.exists /\ set_product(cfg)
    \/ \E u \in Users : register(u)
    \/ Tick(MsPerMinute)

CapacitySpec == Init /\ [][CapacityNext]_vars

\* Scoring on its own: bids that have read any product and any weight, at
\* the await before they compute the score and write it.
Weights == 0 .. MaxAdmin

ScoreStarts(time) == {0, 1, time}

\* One request per bidder: the bidder whose bid task t handles.
BidderOf(t) == ((t - 1) % NumUsers) + 1

ScoreInit ==
    /\ now \in {1, 1 + MsPerMinute}
    /\ ticks = 0
    /\ admins = 0
    /\ requests = 0
    /\ members = [u \in Users |-> None]
    /\ winners = << >>
    /\ lock = NoTask
    /\ txn = NoTxn
    /\ metaCache = None
    /\ userCache = [u \in Users |-> None]
    /\ ranking = [u \in Users |-> None]
    /\ details = [u \in Users |-> None]
    /\ aborted = FALSE
    /\ pc = [t \in Tasks |-> "bid_write"]
    /\ \E W \in Weights, a, b, c \in Coeffs, start \in ScoreStarts(now) :
          /\ product = [NoRow EXCEPT !.exists = TRUE, !.total_quantity = 1,
                                     !.start_time = start, !.period = MsPerMinute,
                                     !.alpha = a, !.beta = b, !.gamma = c]
          /\ \E price \in [Tasks -> Prices] :
                loc = [t \in Tasks |->
                         [NoLocals EXCEPT !.op = "bid", !.user_id = BidderOf(t),
                                          !.bid_price = price[t], !.W = W,
                                          !.product = Some(RowDict(product))]]

ScoreNext == \E t \in Tasks : BidWrite(t)

ScoreSpec == ScoreInit /\ [][ScoreNext]_vars

(* ------------------ get_bid_price and reset_all_data ------------------- *)
\* The locals of get_bid_price: the score it read and the price it answers.
BidPriceLocals(u) ==
    [score |-> None, highest_bid |-> 0]
       @@ [NoLocals EXCEPT !.op = "get_bid_price", !.user_id = u]

StartGetBidPrice(t, u) ==
    /\ pc[t] = "idle"
    /\ requests' = requests + 1
    /\ Goto(t, "gcp_read", BidPriceLocals(u))
    /\ UNCHANGED << now, ticks, admins, product, members, winners, lock, txn,
                    metaCache, userCache, ranking, details, aborted >>

\* redis_client.zscore(ranking_key, user_id); without a score the handler
\* answers highest_bid 0, score 0.
BpScore(t) ==
    /\ pc[t] = "bp_score"
    /\ LET score == ranking[loc[t].user_id]
       IN  IF IsSome(score)
           THEN Goto(t, "bp_detail", [loc[t] EXCEPT !.score = score])
           ELSE Finish(t)
    /\ UNCHANGED << now, ticks, admins, requests, product, members, winners,
                    lock, txn, metaCache, userCache, ranking, details, aborted >>

\* The price get_bid_price answers: that of the detail, 0 without one.
PriceOf(detail) == IF IsSome(detail) THEN Get(detail).price ELSE 0

\* redis_client.hget(details_hash_key, user_id), a command of its own.
BpDetail(t) ==
    /\ pc[t] = "bp_detail"
    /\ Goto(t, "bp_return",
            [loc[t] EXCEPT !.highest_bid = PriceOf(details[loc[t].user_id])])
    /\ UNCHANGED << now, ticks, admins, requests, product, members, winners,
                    lock, txn, metaCache, userCache, ranking, details, aborted >>

\* The handler answers user_id, highest_bid and score.
BpReturn(t) ==
    /\ pc[t] = "bp_return"
    /\ Finish(t)
    /\ UNCHANGED << now, ticks, admins, requests, product, members, winners,
                    lock, txn, metaCache, userCache, ranking, details, aborted >>

StartReset(t) ==
    /\ pc[t] = "idle"
    /\ requests' = requests + 1
    /\ Goto(t, "rs_flush", [NoLocals EXCEPT !.op = "reset_all_data"])
    /\ UNCHANGED << now, ticks, admins, product, members, winners, lock, txn,
                    metaCache, userCache, ranking, details, aborted >>

\* redis_client.flushall(): every key of Redis goes in one command.
RsFlush(t) ==
    /\ pc[t] = "rs_flush"
    /\ metaCache' = None
    /\ userCache' = [u \in Users |-> None]
    /\ ranking' = [u \in Users |-> None]
    /\ details' = [u \in Users |-> None]
    /\ Goto(t, "rs_truncate", loc[t])
    /\ UNCHANGED << now, ticks, admins, requests, product, members, winners,
                    lock, txn, aborted >>

\* TRUNCATE TABLE winners, members, products in a transaction of its own; it
\* waits for the row lock of a settlement.
RsTruncate(t) ==
    /\ pc[t] = "rs_truncate"
    /\ lock = NoTask
    /\ product' = NoRow
    /\ members' = [u \in Users |-> None]
    /\ winners' = << >>
    /\ Finish(t)
    /\ UNCHANGED << now, ticks, admins, requests, lock, txn, metaCache,
                    userCache, ranking, details, aborted >>

\* The handlers that write or read the ranking and the details of a bidder:
\* concurrent bids, get_bid_price and reset_all_data, with listings,
\* registrations and the clock, at most MaxSettleRequests requests.
PairStep(t) ==
    \/ GcpRead(t)
    \/ GcpSet(t)
    \/ WRead(t)
    \/ WSet(t)
    \/ BidWrite(t)
    \/ BpScore(t)
    \/ BpDetail(t)
    \/ BpReturn(t)
    \/ RsFlush(t)
    \/ RsTruncate(t)

PairNext ==
    \/ \E t \in Tasks, u \in Users, p \in Prices :
          requests < MaxSettleRequests /\ StartBid(t, u, p)
    \/ \E t \in Tasks, u \in Users :
          requests < MaxSettleRequests /\ StartGetBidPrice(t, u)
    \/ \E t \in Tasks : requests < MaxSettleRequests /\ StartReset(t)
    \/ \E t \in Tasks : PairStep(t)
    \/ \E cfg \in ProductConfigs : set_product(cfg)
    \/ \E u \in Users : register(u)
    \/ Tick(MsPerMinute)

PairSpec == Init /\ [][PairNext]_vars

(* ------------------------------- claims -------------------------------- *)
\* Every winners row of a bidder, whatever the product.
Awards(u) == Len(SelectSeq(winners, LAMBDA w : w.user_id = u))

\* The row of a member who has won once.
WonOnce == [wins |-> 1, weight |-> 1]

\* What the row lock and the transaction do ensure in a run of one listing,
\* settle_product_logic invoked any number of times and failing anywhere: a
\* bidder never holds two winners rows; no invocation is past the check under
\* the lock once settled is committed; until then the tables hold no winners
\* row and no win; a members row changes only in the commit that inserts its
\* bidder's winners row, by one win.
AtMostOnceState ==
    /\ \A u \in Users : AwardCount(winners, ProductId, u) <= 1
    /\ product.settled => lock = NoTask /\ txn = NoTxn
    /\ ~product.settled =>
          /\ winners = << >>
          /\ \A u \in Users :
                IsSome(members[u]) => Get(members[u]) = [wins |-> 0, weight |-> 0]

AtMostOnceStep ==
    /\ product.settled => winners' = winners
    /\ \A u \in Users :
          IsSome(members[u]) /\ members'[u] # members[u] =>
             /\ ~product.settled
             /\ AwardCount(winners, ProductId, u) = 0
             /\ AwardCount(winners', ProductId, u) = 1
             /\ members'[u] = Some(WinnerRow(Get(members[u])))

SettlementAtMostOnce == [](AtMostOnceState) /\ [][AtMostOnceStep]_vars

\* C1: settlement is exactly-once per auction.  In every run of one listing,
\* with settle_product_logic invoked any number of times, one after the other
\* or interleaved: once settled is committed every bidder who holds a winners
\* row holds exactly one and has a members row with exactly one win and weight
\* one; no invocation is past the check under the row lock; and no step writes
\* a winners row or another win.
ExactlyOnceState ==
    /\ \A u \in Users : AwardCount(winners, ProductId, u) <= 1
    /\ product.settled => lock = NoTask /\ txn = NoTxn
    /\ product.settled =>
          \A u \in Users :
             AwardCount(winners, ProductId, u) = 1 => members[u] = Some(WonOnce)

ExactlyOnceStep ==
    product.settled =>
       /\ winners' = winners
       /\ \A u \in Users : IsSome(members[u]) => members'[u] = members[u]

C1_ExactlyOnce == [](ExactlyOnceState) /\ [][ExactlyOnceStep]_vars

\* C8: settlement is all-or-nothing relative to the settled flag.  In every
\* run of one listing in which a settlement may fail at any statement of its
\* transaction: while the committed settled flag is false the winners table
\* holds no row and no members row has a win or a weight; and once a
\* settlement that follows a failed one has committed, every winner holds
\* exactly one winners row and a members row with exactly one win.
C8_AllOrNothing ==
    /\ ~product.settled =>
          /\ winners = << >>
          /\ \A u \in Users :
                IsSome(members[u]) => Get(members[u]) = [wins |-> 0, weight |-> 0]
    /\ product.settled /\ aborted =>
          \A u \in Users :
             /\ AwardCount(winners, ProductId, u) <= 1
             /\ AwardCount(winners, ProductId, u) = 1 => members[u] = Some(WonOnce)

\* C2: the settled flag of an auction id is one-way: once the store holds
\* settled = true for product_id 1, no later step sets it back to false.
C2_SettledOneWay == [][product.settled => product'.settled]_vars

\* C3: for a settled auction the winners rows of its id number at most its
\* total_quantity and hold at most one row per bidder.
C3_AwardsWithinCapacity ==
    product.settled =>
       /\ Len(AwardsOf(winners, ProductId)) <= product.total_quantity
       /\ \A u \in Users : AwardCount(winners, ProductId, u) <= 1

\* C4: no bid is accepted for a settled auction: the step of bid that writes
\* the ranking and answers ok is never taken while the store holds settled =
\* true.
C4_NoBidOnceSettled ==
    [][\A t \in Tasks :
          pc[t] = "bid_write" /\ pc'[t] = "idle" => ~product.settled]_vars

\* C5: the ranking keeps the maximum score of a bidder: no step lowers the
\* score the ranking holds for a bidder.
C5_RankingKeepsMax ==
    [][\A u \in Users :
          IsSome(ranking[u]) =>
             /\ IsSome(ranking'[u])
             /\ ~ScoreLess(Get(ranking'[u]), Get(ranking[u]))]_vars

\* C6: after a settlement has committed, every metadata read returns settled
\* = true: the cached product, when there is one, is settled.
C6_SettledVisible ==
    product.settled /\ IsSome(metaCache) => Get(metaCache).settled

\* C7: outside a running settlement transaction the weight of every members
\* row equals the number of winners rows its bidder holds.
C7_WeightIsAwardCount ==
    lock = NoTask =>
       \A u \in Users : IsSome(members[u]) => Get(members[u]).weight = Awards(u)

\* C9: the top-n query returns no bidder twice and min(n, ranked bidders)
\* entries, none when n <= 0.
C9_TopDistinct ==
    \A t \in Tasks :
       pc[t] = "top" =>
          LET r == loc[t].top
              n == loc[t].i
          IN  /\ \A i, j \in 1 .. Len(r) : i # j => r[i].user_id # r[j].user_id
              /\ Len(r) = Max(0, Min(n, Cardinality(RankedUsers(ranking))))

\* C10: when no get_current_product is between its read of the row and its
\* write of the cache, the next get_current_product returns the auction and
\* the alpha, beta, gamma the admin set: a cached product has the start_time
\* and total_quantity of the row and every coefficient the row holds.
C10_AdminVisible ==
    (/\ product.exists
     /\ IsSome(metaCache)
     /\ \A t \in Tasks : pc[t] # "gcp_set") =>
       /\ Get(metaCache).start_time = product.start_time
       /\ Get(metaCache).total_quantity = product.total_quantity
       /\ product.alpha # 0 => Get(metaCache).alpha = product.alpha
       /\ product.beta # 0 => Get(metaCache).beta = product.beta
       /\ product.gamma # 0 => Get(metaCache).gamma = product.gamma

\* C11: set_product appends a new auction and leaves every existing auction
\* row as it is: no admin step changes the quantity, the start, the period or
\* the settled flag of the row product_id 1 once it exists, and the step that
\* starts an auction (the row appears, or its start_time changes) leaves an
\* empty ranking.
C11_SetProductAppends ==
    [][admins' # admins =>
          /\ product.exists =>
                /\ product'.total_quantity = product.total_quantity
                /\ product'.start_time = product.start_time
                /\ product'.period = product.period
                /\ product'.settled = product.settled
          /\ (~product.exists \/ product'.start_time # product.start_time) =>
                \A u \in Users : ranking'[u] = None]_vars

\* C12: a bid of a user without members row is rejected: no user without a
\* members row is in the ranking or holds a winners row.
C12_UnregisteredRejected ==
    \A u \in Users :
       ~IsSome(members[u]) => ranking[u] = None /\ Awards(u) = 0

\* C13: bids are accepted only inside the window of the auction: every
\* recorded bid carries a timestamp before start_time + period.
C13_BidsInsideWindow ==
    product.exists =>
       \A u \in Users :
          IsSome(details[u]) =>
             Get(details[u]).time < product.start_time + product.period

\* C18: the details of a bidder are those of the first bid that reached the
\* bidder's maximum score: a step changes the recorded price, timestamp and
\* score of a bidder only to a strictly greater score.
C18_DetailsOfBestBid ==
    [][\A u \in Users :
          IsSome(details[u]) =>
             \/ details'[u] = details[u]
             \/ /\ IsSome(details'[u])
                /\ ScoreLess(Get(details[u]).score, Get(details'[u]).score)]_vars

\* C19: the coefficients of an auction change only before any bid exists:
\* once the ranking holds an entry no step alters alpha, beta or gamma.
C19_CoefficientsFrozen ==
    [][(\E u \in Users : IsSome(ranking[u])) =>
          /\ product'.alpha = product.alpha
          /\ product'.beta = product.beta
          /\ product'.gamma = product.gamma]_vars

\* C14: calc_score is monotonically non-decreasing in the price, the elapsed
\* time >= 1, the weight and the coefficients (alpha >= 0) held fixed; and the
\* score bid stores is calc_score at elapsed = max(now - start_time, 1), whose
\* denominator elapsed + 1 is at least 2.
C14_ScoreMonotone ==
    [][\A t \in Tasks :
          pc[t] = "bid_write" /\ pc'[t] = "idle" =>
             LET l == loc[t]
                 p == Get(l.product)
                 T == Max(now - OrDefault(p.start_time, 0), 1)
                 score(P) == calc_score(P, T, l.W, p.alpha, p.beta, p.gamma)
             IN  /\ T + 1 >= 2
                 /\ ranking'[l.user_id] = Some(score(l.bid_price))
                 /\ \A price1, price2 \in Prices :
                       price1 <= price2 /\ p.alpha >= 0 =>
                          ~ScoreLess(score(price2), score(price1))]_vars

\* C14 witness: a bid written in the millisecond the auction started (the
\* floor of the elapsed time applies, beta / 2 is in the score) with alpha >
\* 0, and a bid of a higher price ranked strictly above it.
C14_Witness ==
    \E u, v \in Users :
       /\ IsSome(details[u]) /\ IsSome(details[v])
       /\ Get(details[u]).time = product.start_time
       /\ product.alpha > 0 /\ product.beta > 0
       /\ Get(ranking[u]).d = 2
       /\ Get(details[u]).price < Get(details[v]).price
       /\ ScoreLess(Get(ranking[u]), Get(ranking[v]))

\* top holds the first min(K, ranked bidders) entries of the ranking zset in
\* descending score order.
IsTopOf(top, zset, K) ==
    LET in == {top[i].user_id : i \in 1 .. Len(top)} IN
    /\ Len(top) = Max(0, Min(K, Cardinality(RankedUsers(zset))))
    /\ \A i \in 1 .. Len(top) :
          /\ top[i].user_id \in RankedUsers(zset)
          /\ top[i].score = Get(zset[top[i].user_id])
    /\ \A i, j \in 1 .. Len(top) :
          i < j => /\ top[i].user_id # top[j].user_id
                   /\ ~ScoreLess(top[i].score, top[j].score)
    /\ \A u \in RankedUsers(zset) \ in :
          \A i \in 1 .. Len(top) : ~ScoreLess(top[i].score, Get(zset[u]))

\* C15: winner selection.  The snapshot a settlement takes under the lock is
\* the first min(capacity, ranked bidders) entries of the ranking in
\* descending score order, and the winners rows its commit adds are the
\* entries of that snapshot, in that order.
C15_WinnerSelection ==
    [][\A t \in Tasks :
          /\ pc[t] = "st_begin" /\ pc'[t] \in {"st_loop", "st_flag"} =>
                IsTopOf(loc'[t].top, ranking, product.total_quantity)
          /\ pc[t] = "st_commit" /\ pc'[t] # "st_commit" /\ product'.settled =>
                /\ Len(winners') = Len(winners) + Len(loc[t].top)
                /\ \A i \in 1 .. Len(loc[t].top) :
                      winners'[Len(winners) + i].user_id = loc[t].top[i].user_id]_vars

\* C16: lazy settlement trigger.  A get_product that observed the window
\* elapsed and settled = false has called settle_product_logic; the product
\* of its response is settled and its winner list holds the bidders of the
\* auction's winners rows.
C16_LazyTrigger ==
    [][\A t \in Tasks :
          pc[t] = "gp_winners" /\ loc[t].phase = 2 /\ pc'[t] # "gp_winners" =>
             /\ Get(loc[t].product).settled
             /\ loc'[t].winner = WinnerList(winners, ProductId)]_vars

\* C17: tie-breaking.  Of two bidders with equal scores the top-n query (n
\* >= 1) puts the one whose bid is earlier first, and never returns the later
\* one while leaving the earlier one out.
C17_TieBreakEarliest ==
    \A t \in Tasks :
       pc[t] = "top" /\ loc[t].i >= 1 =>
          LET top == loc[t].top
              in == {top[i].user_id : i \in 1 .. Len(top)}
              time(u) == Get(details[u]).time
          IN  /\ \A i, j \in 1 .. Len(top) :
                    i < j /\ top[i].score = top[j].score =>
                       time(top[i].user_id) <= time(top[j].user_id)
              /\ \A u \in RankedUsers(ranking) \ in :
                    \A i \in 1 .. Len(top) :
                       top[i].score = Get(ranking[u]) =>
                          time(top[i].user_id) <= time(u)

\* The awaits of settle_product_logic: waiting for the row lock, and holding it.
Waiting(t) == pc[t] = "st_begin"
Holding(t) == pc[t] \in {"st_loop", "st_flag", "st_commit"}

\* C20: settlement makes progress and never deadlocks.  Under fair
\* scheduling at most one task is past the row lock at a time while the
\* others wait for it; once settled is committed no task takes the lock any
\* more (it sees settled and returns); and every task that attempts the
\* settlement eventually has returned from it, with the auction settled
\* unless a settlement raised.
C20_SettlementProgress ==
    /\ [](Cardinality({t \in Tasks : Holding(t)}) <= 1)
    /\ [][product.settled => lock' = NoTask]_vars
    /\ \A t \in Tasks :
          Waiting(t) ~> (/\ ~Waiting(t) /\ ~Holding(t)
                         /\ product.settled \/ aborted)

\* C20 witness: every task has attempted the settlement of the auction and
\* is back from it; the auction is settled and no settlement raised.
C20_Witness ==
    /\ product.settled /\ ~aborted
    /\ \A t \in Tasks : loc[t].op = "get_product" /\ loc[t].phase = 2


\* The coefficients of a product dict or row.
Coefficients(p) == << p.alpha, p.beta, p.gamma >>

\* The cached payload is the one get_current_product builds from the row as
\* it is now: the store is unchanged since the cache was populated.
CacheOfStore ==
    /\ product.exists
    /\ metaCache = Some(CachePayload(product, now))

\* C21: get_current_product returns on a cache hit what it returns on a miss
\* when the store is unchanged: the product a bid gets from a hit is the
\* dict of the stored row, so its alpha, beta and gamma are the stored
\* coefficients (a stored 0 included) and the bid is scored as one that
\* missed the cache.
C21_HitEqualsMiss ==
    [][\A t \in Tasks :
          /\ pc[t] = "gcp_read" /\ loc[t].op = "bid"
          /\ CacheOfStore
          /\ pc'[t] = "w_read"
          => /\ loc'[t].product = Some(RowDict(product))
             /\ Coefficients(Get(loc'[t].product)) = Coefficients(product)
             /\ \A price \in Prices, W \in 0 .. MaxAdmin :
                   BidScore(Get(loc'[t].product), price, W, now)
                      = BidScore(RowDict(product), price, W, now)]_vars


\* C22: the weight cache is coherent with the members table: whenever no
\* settlement transaction is in progress, every weight held in Redis
\* user:<id> is the weight of that bidder's committed members row, also
\* after a settlement that rolled back and however get_user_weight's miss
\* and populate interleave with a settlement's weight update.
C22_WeightCacheCoherent ==
    lock = NoTask =>
       \A u \in Users :
          IsSome(userCache[u]) =>
             /\ IsSome(members[u])
             /\ Get(userCache[u]) = Get(members[u]).weight


\* C23: the ranking and the details stay paired.  In every state each
\* bidder of the ranking has a details entry whose score is the bidder's
\* ranking score, and a bidder without a ranking entry has no details; a
\* step that writes either key for a bidder writes both, for that bidder
\* only, with the price, the time and the score of one and the same bid.
PairedState ==
    \A u \in Users :
       /\ IsSome(ranking[u]) <=> IsSome(details[u])
       /\ IsSome(ranking[u]) => Get(details[u]).score = Get(ranking[u])

PairedStep ==
    \A u \in Users :
       (ranking'[u] # ranking[u] \/ details'[u] # details[u])
          /\ IsSome(ranking'[u]) =>
          \E t \in Tasks :
             /\ pc[t] = "bid_write" /\ pc'[t] = "idle"
             /\ loc[t].user_id = u
             /\ ranking'[u] = Some(BidScore(Get(loc[t].product),
                                            loc[t].bid_price, loc[t].W, now))
             /\ details'[u] = Some([price |-> loc[t].bid_price, time |-> now,
                                    score |-> Get(ranking'[u])])
             /\ \A v \in Users \ {u} :
                   ranking'[v] = ranking[v] /\ details'[v] = details[v]

====
